---- MODULE Spec2Model ----
(***************************************************************************)
(* The MPU-9250 movement sensor of tdk-invensense (package mpu9250):       *)
(* construction (makeMpu9250), the background acquisition loop, the        *)
(* accessor methods and Close, over a simulated I2C bus.                   *)
(*                                                                         *)
(* Floating-point quantities are kept exactly, as integer numerators over  *)
(* a fixed denominator:                                                    *)
(*   a scale            n  stands for  n / 32768                           *)
(*   an angular velocity n  stands for  n / 32768                          *)
(*   an acceleration    n  stands for  n / (32768 * 100)                   *)
(*   a temperature      n  stands for  n / 33387   (the cached 0.0 is 0)   *)
(***************************************************************************)
EXTENDS Integers, Sequences, FiniteSets, TLC

\* ---------------------------------------------------------------- constants

defaultAddressRegister == 117
expectedDefaultAddress == 104
\* Faulty variant: the identity byte is compared with the I2C address.
identityMistakenForAddress == expectedDefaultAddress
expectedConfigurationReadAddress == 113
alternateAddress == 105

powerRegister == 107
gyroConfigRegister == 27
accelConfigRegister == 28
burstRegister == 59
burstLength == 14
sleepBit == 64

\* movementsensor.NewLastError(10, 5)
errWindowSize == 10
\* Faulty variant: a threshold of one more failure.
errThresholdOneMore == 5 + 1
errThreshold == 5

\* ------------------------------------------------------------- environment

\* The chips the simulated bus can hold: the byte each answers for the
\* identity register and for the two scale registers.
Chip(identity, gyroByte, accelByte) ==
    [id |-> identity, gyro |-> gyroByte, accel |-> accelByte]

\* An MPU-9250 at its power-on scale settings, and a device that is not one.
DefaultChip == Chip(113, 0, 0)
WrongChip == Chip(104, 0, 0)

\* The 14-byte blocks a burst read can return.
BurstA == <<0, 0, 0, 0, 64, 0, 0, 0, 0, 0, 0, 0, 0, 0>>
BurstB == <<255, 255, 128, 0, 127, 255, 130, 107, 0, 1, 255, 254, 127, 255>>
Bursts == {BurstA, BurstB}

NoData == <<>>

\* ------------------------------------------------------------ pure helpers

\* Faulty variant: the low byte comes first.
Int16FromBytesLE(b) ==
    LET u == b[2] * 256 + b[1]
    IN  IF u >= 32768 THEN u - 65536 ELSE u

\* utils.Int16FromBytesBE: two bytes, big-endian, two's complement.
Int16FromBytesBE(b) ==
    LET u == b[1] * 256 + b[2]
    IN  IF u >= 32768 THEN u - 65536 ELSE u

\* Faulty variant: the low 2 bits of the byte select the range.
GyroScaleOfLowBits(result) ==
    CASE result % 4 = 0 -> 250
      [] result % 4 = 1 -> 500
      [] result % 4 = 2 -> 1000
      [] result % 4 = 3 -> 2000

\* The switch of getReadingScales on the gyro register byte.  The literals
\* 00 and 01 are octal (0 and 1); 10 and 11 are decimal.
GyroScaleOf(result) ==
    CASE result = 0 -> 250
      [] result = 1 -> 500
      [] result = 10 -> 1000
      [] result = 11 -> 2000
      [] OTHER -> 0

\* The switch of getReadingScales on the accel register byte.
AccelScaleOf(result) ==
    CASE result = 0 -> 2
      [] result = 1 -> 4
      [] result = 10 -> 8
      [] result = 11 -> 16
      [] OTHER -> 0

\* setScale(value, maxValue) = float64(value) * maxValue
setScale(value, maxValue) == value * maxValue

\* toAngularVelocity: bytes 0..5 of its argument, scaled by the package's
\* gyroScale (numerators over 32768).
toAngularVelocity(data, gScale) ==
    << setScale(Int16FromBytesBE(SubSeq(data, 1, 2)), gScale),
       setScale(Int16FromBytesBE(SubSeq(data, 3, 4)), gScale),
       setScale(Int16FromBytesBE(SubSeq(data, 5, 6)), gScale) >>

\* toLinearAcceleration: scaled by accelScale, times 9.81 (numerators over
\* 32768 * 100).
toLinearAcceleration(data, aScale) ==
    << setScale(Int16FromBytesBE(SubSeq(data, 1, 2)), aScale) * 981,
       setScale(Int16FromBytesBE(SubSeq(data, 3, 4)), aScale) * 981,
       setScale(Int16FromBytesBE(SubSeq(data, 5, 6)), aScale) * 981 >>

\* float64(Int16FromBytesBE(rawData[6:8]))/333.87 + 21.0 (numerator over 33387)
toTemperature(data) ==
    Int16FromBytesBE(data) * 100 + 21 * 33387

ZeroVector == <<0, 0, 0>>

\* Faulty variant: the gyro bytes are taken to come first in the block.
DecodeGyroFirst(rawData, gScale, aScale) ==
    [ la   |-> toLinearAcceleration(SubSeq(rawData, 9, 14), aScale),
      temp |-> toTemperature(SubSeq(rawData, 7, 8)),
      av   |-> toAngularVelocity(SubSeq(rawData, 1, 6), gScale) ]

\* The three values the loop computes from one burst.
Decode(rawData, gScale, aScale) ==
    [ la   |-> toLinearAcceleration(SubSeq(rawData, 1, 6), aScale),
      temp |-> toTemperature(SubSeq(rawData, 7, 8)),
      av   |-> toAngularVelocity(SubSeq(rawData, 9, 14), gScale) ]

NoVals == [la |-> ZeroVector, temp |-> 0, av |-> ZeroVector]

\* ------------------------------------------------------------- Error State

\* Faulty variant: a new window already holds errThreshold failures.
StaleWindow == [i \in 1..errWindowSize |-> i <= errThreshold]

\* movementsensor.LastError, the window of the outcomes of the last
\* errWindowSize calls of Set, oldest first; TRUE stands for a non-nil error.
\* The type is declared outside the repository: the repository fixes its
\* parameters and the contract "only report errors if at least 5 of the last
\* 10 attempts have failed".
EmptyWindow == [i \in 1..errWindowSize |-> FALSE]

\* Faulty variant: only failures are recorded.
LastErrorSetFailuresOnly(w, failed) == IF failed THEN Append(Tail(w), TRUE) ELSE w

LastErrorSet(w, failed) == Append(Tail(w), failed)

FailureCount(w) == Cardinality({i \in 1..Len(w) : w[i]})

Nil == "nil"
BusError == "busError"

\* Get: the error it hands back.
LastErrorGet(w) == IF FailureCount(w) >= errThreshold THEN BusError ELSE Nil

\* The window a Get leaves behind.  Whether a Get that reports an error also
\* empties the window is decided by the library, not by the repository, so
\* both outcomes are allowed.
LastErrorAfterGet(w) == IF LastErrorGet(w) # Nil THEN {w, EmptyWindow} ELSE {w}

\* ------------------------------------------------------------------- state

VARIABLES
    chip,               \* the device on the simulated bus
    pcMake,             \* position of makeMpu9250
    makeErr,            \* the error makeMpu9250 returned, "none" if none
    makeLog,            \* the bus transactions makeMpu9250 issued, in order
    mkGyro,             \* getReadingScales' local gyroScale
    handle,             \* per caller, the transaction its open handle serves
    gyroScale,          \* package variable gyroScale
    accelScale,         \* package variable accelScale
    angularVelocity,    \* mpu9250.angularVelocity
    temperature,        \* mpu9250.temperature
    linearAcceleration, \* mpu9250.linearAcceleration
    errs,               \* mpu9250.err
    mu,                 \* mpu9250.mu: "free" or its holder
    loopPc,             \* position of the background worker
    loopRaw,            \* the worker's rawData
    loopVals,           \* the worker's decoded locals
    cancelled,          \* cancelCtx is done
    closePc,            \* position of Close
    closeErr,           \* Close's err
    ret,                \* the result the last step handed to a caller
    conf,               \* the Config the resource was declared with
    validation,         \* what conf.Validate returned to the host
    i2cAddress,         \* mpu9250.i2cAddress, 0 before the struct is built
    closeLogged,        \* Close logged the error of its write
    mkBus,              \* history: outcome of makeMpu9250's last transaction
    published,          \* history: the worker has published a snapshot
    ticker,             \* the worker's time.Ticker: "none", "running", "stopped"
    otherChip,          \* the device a second sensor is constructed on
    pcOther,            \* position of the second sensor's makeMpu9250
    otherPending,       \* package variables its assignment has yet to write
    failedReads,        \* history: failed burst reads, counted up to errThreshold
    openedAt,           \* history: the addresses bus.OpenHandle was given
    everFaulted         \* history: the Error State has been faulted

construction == <<pcMake, makeErr, makeLog, mkGyro, mkBus>>
scales == <<gyroScale, accelScale>>
cache == <<angularVelocity, temperature, linearAcceleration>>
worker == <<loopPc, loopRaw, loopVals>>
closing == <<closePc, closeErr, closeLogged>>
config == <<conf, validation, i2cAddress>>
other == <<otherChip, pcOther, otherPending>>

vars == <<chip, config, construction, handle, scales, cache, errs, mu, worker,
          ticker, cancelled, closing, ret, other, published, openedAt,
          everFaulted, failedReads>>

Callers == {"make", "loop", "close"}

NoTx == [op |-> "none", reg |-> 0, arg |-> 0]
ReadTx(register, length) == [op |-> "read", reg |-> register, arg |-> length]
WriteTx(register, value) == [op |-> "write", reg |-> register, arg |-> value]

NoRet == [op |-> "none", val |-> 0, err |-> Nil]

\* A Config: the attributes i2c_bus and use_alt_i2c_address.
Config(bus, useAlt) == [I2cBus |-> bus, UseAlternateI2CAddress |-> useAlt]

DefaultConf == Config("1", FALSE)

NotValidated == [deps |-> <<>>, err |-> "notRun"]

FieldRequiredError(field) == "ConfigValidationFieldRequiredError: " \o field

\* Faulty variant: an empty i2c_bus is accepted.
ValidateAcceptsAny(c) == [deps |-> <<>>, err |-> Nil]

\* Config.Validate: the dependencies and the error it returns.
Validate(c) ==
    IF c.I2cBus = ""
    THEN [deps |-> <<>>, err |-> FieldRequiredError("i2c_bus")]
    ELSE [deps |-> <<>>, err |-> Nil]

\* No second sensor is constructed.
NoChip == Chip(0, 0, 0)

InitAll(chips, confs, others) ==
    /\ chip \in chips
    /\ otherChip \in others
    /\ pcOther = "notCalled"
    /\ otherPending = {}
    /\ ticker = "none"
    /\ failedReads = 0
    /\ conf \in confs
    /\ validation = NotValidated
    /\ i2cAddress = 0
    /\ closeLogged = FALSE
    /\ openedAt = {}
    /\ everFaulted = FALSE
    /\ pcMake = "notCalled"
    /\ makeErr = "none"
    /\ makeLog = <<>>
    /\ mkGyro = 0
    /\ handle = [c \in Callers |-> NoTx]
    /\ gyroScale = 0
    /\ accelScale = 0
    /\ angularVelocity = ZeroVector
    /\ temperature = 0
    /\ linearAcceleration = ZeroVector
    /\ errs = EmptyWindow
    /\ mu = "free"
    /\ loopPc = "notStarted"
    /\ loopRaw = NoData
    /\ loopVals = NoVals
    /\ cancelled = FALSE
    /\ closePc = "idle"
    /\ closeErr = Nil
    /\ ret = NoRet
    /\ mkBus = "none"
    /\ published = FALSE

InitWith(chips, confs) == InitAll(chips, confs, {NoChip})

InitOn(chips) == InitWith(chips, {DefaultConf})

Init == InitOn({DefaultChip, WrongChip})

\* ------------------------------------------------------------ construction

\* The host validates the declared attributes before it constructs.
HostValidate ==
    /\ validation = NotValidated
    /\ validation' = Validate(conf)
    /\ ret' = NoRet
    /\ UNCHANGED <<chip, other, failedReads, ticker, conf, i2cAddress,
                   openedAt, everFaulted, construction, handle, scales, cache,
                   errs, mu, worker, cancelled, closing, published>>

\* Faulty variant: the flag is ignored.
AddressIgnoringFlag(c) == expectedDefaultAddress

\* The address makeMpu9250 gives the sensor.
AddressOf(c) ==
    IF c.UseAlternateI2CAddress THEN alternateAddress ELSE expectedDefaultAddress

\* makeMpu9250 up to its first bus access: the address is chosen and the
\* mpu9250 value is built.  The host constructs only what it validated.
MakeStart ==
    /\ pcMake = "notCalled"
    /\ validation.err = Nil
    /\ i2cAddress' = AddressOf(conf)
    /\ pcMake' = "idRead"
    /\ ret' = NoRet
    /\ UNCHANGED <<chip, other, failedReads, ticker, conf, validation,
                   openedAt, everFaulted, makeErr, makeLog, mkGyro, mkBus,
                   handle, scales, cache, errs, mu, worker, cancelled,
                   closing, published>>

\* Faulty variant: the scale registers are read before the chip is woken up.
MakeTxScalesFirst(pc) ==
    CASE pc = "idRead"    -> ReadTx(defaultAddressRegister, 1)
      [] pc = "wake"      -> ReadTx(gyroConfigRegister, 1)
      [] pc = "gyroRead"  -> ReadTx(accelConfigRegister, 1)
      [] pc = "accelRead" -> WriteTx(powerRegister, 0)

\* The transaction makeMpu9250 issues at each position.
MakeTx(pc) ==
    CASE pc = "idRead"    -> ReadTx(defaultAddressRegister, 1)
      [] pc = "wake"      -> WriteTx(powerRegister, 0)
      [] pc = "gyroRead"  -> ReadTx(gyroConfigRegister, 1)
      [] pc = "accelRead" -> ReadTx(accelConfigRegister, 1)

\* The error makeMpu9250 returns when the transaction at a position fails.
MakeFailure(pc) ==
    CASE pc = "idRead"    -> "addressReadError"
      [] pc = "wake"      -> "unableToWakeUp"
      [] pc = "gyroRead"  -> "busError"
      [] pc = "accelRead" -> "busError"

\* makeMpu9250 returns (nil, err).  A failed getReadingScales has already
\* been assigned to the package variables (0, 0) by then.
MakeAbort(pc) ==
    /\ pcMake' = "failed"
    /\ mkBus' = "failed"
    /\ makeErr' = MakeFailure(pc)
    /\ mkGyro' = 0
    /\ IF pc \in {"gyroRead", "accelRead"}
       THEN gyroScale' = 0 /\ accelScale' = 0
       ELSE UNCHANGED scales
    /\ UNCHANGED <<loopPc, ticker>>

\* The continuation of makeMpu9250 after the transaction at a position
\* succeeded.
MakeAdvance(pc) ==
    CASE pc = "idRead" ->
            /\ IF chip.id # expectedConfigurationReadAddress
               THEN pcMake' = "failed" /\ makeErr' = "unexpectedDeviceError"
               ELSE pcMake' = "wake" /\ UNCHANGED makeErr
            /\ UNCHANGED <<mkGyro, scales, loopPc, ticker>>
      [] pc = "wake" ->
            /\ pcMake' = "gyroRead"
            /\ UNCHANGED <<makeErr, mkGyro, scales, loopPc, ticker>>
      [] pc = "gyroRead" ->
            /\ pcMake' = "accelRead"
            /\ mkGyro' = GyroScaleOf(chip.gyro)
            /\ UNCHANGED <<makeErr, scales, loopPc, ticker>>
      [] pc = "accelRead" ->
            /\ pcMake' = "done"
            /\ gyroScale' = mkGyro
            /\ accelScale' = AccelScaleOf(chip.accel)
            /\ mkGyro' = 0
            /\ loopPc' = "select"
            /\ ticker' = "running"
            /\ UNCHANGED makeErr

\* readBlock / writeByte called by makeMpu9250: bus.OpenHandle.
MakeOpen ==
    /\ pcMake \in {"idRead", "wake", "gyroRead", "accelRead"}
    /\ handle["make"] = NoTx
    /\ makeLog' = Append(makeLog, MakeTx(pcMake))
    /\ \/ /\ handle' = [handle EXCEPT !["make"] = MakeTx(pcMake)]
          /\ UNCHANGED <<pcMake, makeErr, mkGyro, mkBus, scales, loopPc,
                         ticker>>
       \/ /\ MakeAbort(pcMake)
          /\ UNCHANGED handle
    /\ openedAt' = openedAt \cup {i2cAddress}
    /\ ret' = NoRet
    /\ UNCHANGED <<chip, other, failedReads, config, everFaulted, published,
                   cache, errs, mu, loopRaw, loopVals, cancelled, closing>>

\* The transfer on the open handle and the deferred handle.Close.
MakeTransfer ==
    /\ handle["make"] # NoTx
    /\ handle' = [handle EXCEPT !["make"] = NoTx]
    /\ \/ MakeAdvance(pcMake) /\ mkBus' = "ok"
       \/ MakeAbort(pcMake)
    /\ ret' = NoRet
    /\ UNCHANGED <<chip, other, failedReads, config, openedAt, everFaulted,
                   published, makeLog, cache, errs, mu, loopRaw, loopVals,
                   cancelled, closing>>

\* ------------------------------------------------------- background worker

\* case <-timer.C: readBlock(cancelCtx, 59, 14) opens its handle.
LoopTick ==
    /\ loopPc = "select"
    /\ \/ /\ handle' = [handle EXCEPT !["loop"] = ReadTx(burstRegister, burstLength)]
          /\ loopPc' = "reading"
       \/ /\ loopPc' = "gotErr"
          /\ UNCHANGED handle
    /\ openedAt' = openedAt \cup {i2cAddress}
    /\ ret' = NoRet
    /\ UNCHANGED <<chip, other, failedReads, ticker, config, everFaulted,
                   published, construction, scales, cache, errs, mu, loopRaw,
                   loopVals, cancelled, closing>>
\* Faulty variant: a failed read returns without closing the handle.
LoopReadLeaksOnError ==
    /\ loopPc = "reading"
    /\ \/ /\ \E b \in Bursts : loopRaw' = b /\ loopPc' = "gotData"
          /\ handle' = [handle EXCEPT !["loop"] = NoTx]
       \/ /\ loopRaw' = NoData /\ loopPc' = "gotErr"
          /\ UNCHANGED handle
    /\ ret' = NoRet
    /\ UNCHANGED <<chip, other, failedReads, ticker, config, openedAt,
                   everFaulted, published, construction, scales, cache, errs,
                   mu, loopVals, cancelled, closing>>


\* handle.ReadBlockData and the deferred handle.Close.
LoopRead ==
    /\ loopPc = "reading"
    /\ handle' = [handle EXCEPT !["loop"] = NoTx]
    /\ \/ \E b \in Bursts : loopRaw' = b /\ loopPc' = "gotData"
       \/ loopRaw' = NoData /\ loopPc' = "gotErr"
    /\ ret' = NoRet
    /\ UNCHANGED <<chip, other, failedReads, ticker, config, openedAt,
                   everFaulted, published, construction, scales, cache, errs,
                   mu, loopVals, cancelled, closing>>

\* Faulty variant: a failed read ends the worker.
LoopSetStopsOnError ==
    /\ loopPc \in {"gotErr", "gotData"}
    /\ errs' = LastErrorSet(errs, loopPc = "gotErr")
    /\ loopPc' = IF loopPc = "gotErr" THEN "exited" ELSE "recorded"
    /\ everFaulted' = (everFaulted \/ LastErrorGet(errs') # Nil)
    /\ failedReads' = IF loopPc = "gotErr" /\ failedReads < errThreshold
                      THEN failedReads + 1 ELSE failedReads
    /\ ret' = NoRet
    /\ UNCHANGED <<chip, other, ticker, config, openedAt, published,
                   construction, handle, scales, cache, mu, loopRaw, loopVals,
                   cancelled, closing>>

\* sensor.err.Set(err); on an error, log and continue.
LoopSet ==
    /\ loopPc \in {"gotErr", "gotData"}
    /\ errs' = LastErrorSet(errs, loopPc = "gotErr")
    /\ loopPc' = IF loopPc = "gotErr" THEN "select" ELSE "recorded"
    /\ everFaulted' = (everFaulted \/ LastErrorGet(errs') # Nil)
    /\ failedReads' = IF loopPc = "gotErr" /\ failedReads < errThreshold
                      THEN failedReads + 1 ELSE failedReads
    /\ ret' = NoRet
    /\ UNCHANGED <<chip, other, ticker, config, openedAt, published,
                   construction, handle, scales, cache, mu, loopRaw, loopVals,
                   cancelled, closing>>

\* toLinearAcceleration, the temperature formula, toAngularVelocity.
LoopDecode ==
    /\ loopPc = "recorded"
    /\ loopVals' = Decode(loopRaw, gyroScale, accelScale)
    /\ loopRaw' = NoData
    /\ loopPc' = "decoded"
    /\ ret' = NoRet
    /\ UNCHANGED <<chip, other, failedReads, ticker, config, openedAt,
                   everFaulted, published, construction, handle, scales,
                   cache, errs, mu, cancelled, closing>>

\* Faulty variant: Lock returns at once and takes nothing.
LockSkipped(who) == UNCHANGED mu

\* sync.Mutex.
Lock(who) == mu = "free" /\ mu' = who

\* Faulty variant: the lock is kept.
UnlockKept(who) == mu = who /\ UNCHANGED mu

Unlock(who) == mu = who /\ mu' = "free"

LoopLock ==
    /\ loopPc = "decoded"
    /\ Lock("loop")
    /\ loopPc' = "locked"
    /\ ret' = NoRet
    /\ UNCHANGED <<chip, other, failedReads, ticker, config, openedAt,
                   everFaulted, published, construction, handle, scales,
                   cache, errs, loopRaw, loopVals, cancelled, closing>>

LoopWriteLinearAcceleration ==
    /\ loopPc = "locked"
    /\ linearAcceleration' = loopVals.la
    /\ loopPc' = "wroteLA"
    /\ ret' = NoRet
    /\ UNCHANGED <<chip, other, failedReads, ticker, config, openedAt,
                   everFaulted, published, construction, handle, scales,
                   angularVelocity, temperature, errs, mu, loopRaw, loopVals,
                   cancelled, closing>>

LoopWriteTemperature ==
    /\ loopPc = "wroteLA"
    /\ temperature' = loopVals.temp
    /\ loopPc' = "wroteTemp"
    /\ ret' = NoRet
    /\ UNCHANGED <<chip, other, failedReads, ticker, config, openedAt,
                   everFaulted, published, construction, handle, scales,
                   angularVelocity, linearAcceleration, errs, mu, loopRaw,
                   loopVals, cancelled, closing>>

LoopWriteAngularVelocity ==
    /\ loopPc = "wroteTemp"
    /\ angularVelocity' = loopVals.av
    /\ published' = TRUE
    /\ loopPc' = "wroteAV"
    /\ ret' = NoRet
    /\ UNCHANGED <<chip, other, failedReads, ticker, config, openedAt,
                   everFaulted, construction, handle, scales, temperature,
                   linearAcceleration, errs, mu, loopRaw, loopVals, cancelled,
                   closing>>

LoopUnlock ==
    /\ loopPc = "wroteAV"
    /\ Unlock("loop")
    /\ loopVals' = NoVals
    /\ loopPc' = "select"
    /\ ret' = NoRet
    /\ UNCHANGED <<chip, other, failedReads, ticker, config, openedAt,
                   everFaulted, published, construction, handle, scales,
                   cache, errs, loopRaw, cancelled, closing>>

\* Faulty variant: the select has no cancellation case.
LoopCancelIgnored == FALSE /\ UNCHANGED vars

\* case <-cancelCtx.Done(): return (and the deferred timer.Stop).
LoopCancel ==
    /\ loopPc = "select"
    /\ cancelled
    /\ loopPc' = "exited"
    /\ ticker' = "stopped"
    /\ ret' = NoRet
    /\ UNCHANGED <<chip, other, failedReads, config, openedAt, everFaulted,
                   published, construction, handle, scales, cache, errs, mu,
                   loopRaw, loopVals, cancelled, closing>>

\* ---------------------------------------------------------------- accessors

\* Faulty variant: an accessor that does not take the lock.
UnlockedCall == UNCHANGED mu

\* mu.Lock() on entry and the deferred mu.Unlock(): the body of an accessor
\* is one critical section, taken in one step.
LockedCall == mu = "free" /\ UNCHANGED mu

\* Faulty variant: a faulted sensor answers the zero vector.
AngularVelocityZeroWhenFaulted ==
    /\ pcMake = "done"
    /\ mu = "free" /\ UNCHANGED mu
    /\ ret' = [op |-> "AngularVelocity",
               val |-> IF LastErrorGet(errs) # Nil THEN ZeroVector
                       ELSE angularVelocity,
               err |-> LastErrorGet(errs)]
    /\ errs' \in LastErrorAfterGet(errs)
    /\ UNCHANGED <<chip, other, failedReads, ticker, config, openedAt,
                   everFaulted, published, construction, handle, scales,
                   cache, worker, cancelled, closing>>

AngularVelocity ==
    /\ pcMake = "done"
    /\ LockedCall
    /\ ret' = [op |-> "AngularVelocity", val |-> angularVelocity,
               err |-> LastErrorGet(errs)]
    /\ errs' \in LastErrorAfterGet(errs)
    /\ UNCHANGED <<chip, other, failedReads, ticker, config, openedAt,
                   everFaulted, published, construction, handle, scales,
                   cache, worker, cancelled, closing>>

\* Faulty variant: the cached vector is returned with the fault error.
LinearAccelerationNoShortCircuit ==
    /\ pcMake = "done"
    /\ mu = "free" /\ UNCHANGED mu
    /\ ret' = [op |-> "LinearAcceleration", val |-> linearAcceleration,
               err |-> LastErrorGet(errs)]
    /\ errs' \in LastErrorAfterGet(errs)
    /\ UNCHANGED <<chip, other, failedReads, ticker, config, openedAt,
                   everFaulted, published, construction, handle, scales,
                   cache, worker, cancelled, closing>>

\* Faulty variant: a faulted call also zeroes the cached vector.
LinearAccelerationClearsCache ==
    /\ pcMake = "done"
    /\ mu = "free" /\ UNCHANGED mu
    /\ LET lastError == LastErrorGet(errs)
       IN  /\ ret' = [op |-> "LinearAcceleration",
                       val |-> IF lastError # Nil THEN ZeroVector
                               ELSE linearAcceleration,
                       err |-> lastError]
           /\ linearAcceleration' = IF lastError # Nil THEN ZeroVector
                                    ELSE linearAcceleration
    /\ errs' \in LastErrorAfterGet(errs)
    /\ UNCHANGED <<chip, other, failedReads, ticker, config, openedAt,
                   everFaulted, published, construction, handle, scales,
                   angularVelocity, temperature, worker, cancelled, closing>>

LinearAcceleration ==
    /\ pcMake = "done"
    /\ LockedCall
    /\ LET lastError == LastErrorGet(errs)
       IN  ret' = [op |-> "LinearAcceleration",
                   val |-> IF lastError # Nil THEN ZeroVector
                           ELSE linearAcceleration,
                   err |-> lastError]
    /\ errs' \in LastErrorAfterGet(errs)
    /\ UNCHANGED <<chip, other, failedReads, ticker, config, openedAt,
                   everFaulted, published, construction, handle, scales,
                   cache, worker, cancelled, closing>>

Readings ==
    /\ pcMake = "done"
    /\ LockedCall
    /\ ret' = [op |-> "Readings",
               val |-> [la |-> linearAcceleration, temp |-> temperature,
                        av |-> angularVelocity],
               err |-> LastErrorGet(errs)]
    /\ errs' \in LastErrorAfterGet(errs)
    /\ UNCHANGED <<chip, other, failedReads, ticker, config, openedAt,
                   everFaulted, published, construction, handle, scales,
                   cache, worker, cancelled, closing>>

SupportedProperties ==
    [AngularVelocitySupported |-> TRUE, LinearAccelerationSupported |-> TRUE,
     LinearVelocitySupported |-> FALSE, OrientationSupported |-> FALSE,
     PositionSupported |-> FALSE, CompassHeadingSupported |-> FALSE]

\* Faulty variant: a faulted sensor answers Properties with the fault.
PropertiesWindowed ==
    /\ pcMake = "done"
    /\ ret' = [op |-> "Properties", val |-> SupportedProperties,
               err |-> LastErrorGet(errs)]
    /\ UNCHANGED <<chip, other, failedReads, ticker, config, openedAt,
                   everFaulted, published, construction, handle, scales,
                   cache, errs, mu, worker, cancelled, closing>>

Properties ==
    /\ pcMake = "done"
    /\ ret' = [op |-> "Properties", val |-> SupportedProperties, err |-> Nil]
    /\ UNCHANGED <<chip, other, failedReads, ticker, config, openedAt,
                   everFaulted, published, construction, handle, scales,
                   cache, errs, mu, worker, cancelled, closing>>

\* LinearVelocity, Orientation, CompassHeading and Position return a zero
\* value and their movementsensor.ErrMethodUnimplemented... error.
UnsupportedMethods == {"LinearVelocity", "Orientation", "CompassHeading", "Position"}

UnimplementedError(m) == "ErrMethodUnimplemented" \o m

\* Faulty variant: a faulted sensor answers with the fault instead.
UnsupportedWindowed(m) ==
    /\ pcMake = "done"
    /\ ret' = [op |-> m, val |-> 0,
               err |-> IF LastErrorGet(errs) # Nil THEN BusError
                       ELSE UnimplementedError(m)]
    /\ UNCHANGED <<chip, other, failedReads, ticker, config, openedAt,
                   everFaulted, published, construction, handle, scales,
                   cache, errs, mu, worker, cancelled, closing>>

Unsupported(m) ==
    /\ pcMake = "done"
    /\ ret' = [op |-> m, val |-> 0, err |-> UnimplementedError(m)]
    /\ UNCHANGED <<chip, other, failedReads, ticker, config, openedAt,
                   everFaulted, published, construction, handle, scales,
                   cache, errs, mu, worker, cancelled, closing>>

Accuracy ==
    /\ pcMake = "done"
    /\ ret' = [op |-> "Accuracy", val |-> "UnimplementedOptionalAccuracies",
               err |-> Nil]
    /\ UNCHANGED <<chip, other, failedReads, ticker, config, openedAt,
                   everFaulted, published, construction, handle, scales,
                   cache, errs, mu, worker, cancelled, closing>>

\* -------------------------------------------------------------------- Close

\* mpu.workers.Stop(): cancel the worker's context ...
CloseStop ==
    /\ pcMake = "done"
    /\ closePc = "idle"
    /\ cancelled' = TRUE
    /\ closePc' = "stopping"
    /\ ret' = NoRet
    /\ UNCHANGED <<chip, other, failedReads, ticker, config, openedAt,
                   everFaulted, published, construction, handle, scales,
                   cache, errs, mu, worker, closeErr, closeLogged>>

\* Faulty variant: Stop cancels and does not wait.
WorkersStoppedNoWait == TRUE

\* ... and wait for the worker to return.
WorkersStopped == loopPc = "exited"

CloseJoin ==
    /\ closePc = "stopping"
    /\ WorkersStopped
    /\ closePc' = "stopped"
    /\ ret' = NoRet
    /\ UNCHANGED <<chip, other, failedReads, ticker, config, openedAt,
                   everFaulted, published, construction, handle, scales,
                   cache, errs, mu, worker, cancelled, closeErr, closeLogged>>

CloseLock ==
    /\ closePc = "stopped"
    /\ Lock("close")
    /\ closePc' = "locked"
    /\ ret' = NoRet
    /\ UNCHANGED <<chip, other, failedReads, ticker, config, openedAt,
                   everFaulted, published, construction, handle, scales,
                   cache, errs, worker, cancelled, closeErr, closeLogged>>

\* writeByte(ctx, 107, 1<<6) opens its handle.
CloseOpen ==
    /\ closePc = "locked"
    /\ \/ /\ handle' = [handle EXCEPT !["close"] = WriteTx(powerRegister, sleepBit)]
          /\ closePc' = "writing"
          /\ UNCHANGED closeErr
       \/ /\ closeErr' = BusError
          /\ closePc' = "wrote"
          /\ UNCHANGED handle
    /\ UNCHANGED closeLogged
    /\ openedAt' = openedAt \cup {i2cAddress}
    /\ ret' = NoRet
    /\ UNCHANGED <<chip, other, failedReads, ticker, config, everFaulted,
                   published, construction, scales, cache, errs, mu, worker,
                   cancelled>>

\* handle.WriteByteData and the deferred handle.Close.
CloseWrite ==
    /\ closePc = "writing"
    /\ handle' = [handle EXCEPT !["close"] = NoTx]
    /\ closeErr' \in {Nil, BusError}
    /\ closePc' = "wrote"
    /\ UNCHANGED closeLogged
    /\ ret' = NoRet
    /\ UNCHANGED <<chip, other, failedReads, ticker, config, openedAt,
                   everFaulted, published, construction, scales, cache, errs,
                   mu, worker, cancelled>>

\* Faulty variant: the error of the write is logged and nil is returned.
CloseReturnLogOnly ==
    /\ closePc = "wrote"
    /\ Unlock("close")
    /\ closePc' = "returned"
    /\ ret' = [op |-> "Close", val |-> 0, err |-> Nil]
    /\ closeLogged' = (closeErr # Nil)
    /\ UNCHANGED <<chip, other, failedReads, ticker, config, openedAt,
                   everFaulted, published, construction, handle, scales,
                   cache, errs, worker, cancelled, closeErr>>

\* Log the error if any, the deferred mu.Unlock(), return err.
CloseReturn ==
    /\ closePc = "wrote"
    /\ Unlock("close")
    /\ closePc' = "returned"
    /\ ret' = [op |-> "Close", val |-> 0, err |-> closeErr]
    /\ UNCHANGED <<chip, other, failedReads, ticker, config, openedAt,
                   everFaulted, published, construction, handle, scales,
                   cache, errs, worker, cancelled, closeErr>>
    /\ closeLogged' = (closeErr # Nil)

\* ------------------------------------------------------- a second sensor

\* makeMpu9250 called for a second sensor, on otherChip: of what it does,
\* only its assignment to the package variables gyroScale and accelScale
\* reaches the first sensor.  Its bus transactions, up to the wake-up write,
\* either all succeed on an MPU-9250 or it returns an error.
OtherMakeBegin ==
    /\ pcOther = "notCalled"
    /\ otherChip # NoChip
    /\ \/ /\ otherChip.id = expectedConfigurationReadAddress
          /\ pcOther' = "scales"
       \/ pcOther' = "failed"
    /\ ret' = NoRet
    /\ UNCHANGED <<chip, otherChip, otherPending, failedReads, ticker, config,
                   openedAt, everFaulted, published, construction, handle,
                   scales, cache, errs, mu, worker, cancelled, closing>>

\* Its getReadingScales returns the scales of otherChip, or (0, 0, err); the
\* assignment of either result to the package variables is then due.
OtherGetScales ==
    /\ pcOther = "scales"
    /\ pcOther' \in {"assign", "assignZero"}
    /\ otherPending' = {"gyroScale", "accelScale"}
    /\ ret' = NoRet
    /\ UNCHANGED <<chip, otherChip, failedReads, ticker, config, openedAt,
                   everFaulted, published, construction, handle, scales,
                   cache, errs, mu, worker, cancelled, closing>>

\* gyroScale, accelScale, err = sensor.getReadingScales(ctx): the two
\* package variables are written without synchronisation, while the first
\* sensor's worker may be reading them, so the writes become visible one at
\* a time, in either order.  Then the second makeMpu9250 returns.
OtherAssign(v) ==
    /\ pcOther \in {"assign", "assignZero"}
    /\ v \in otherPending
    /\ IF v = "gyroScale"
       THEN /\ gyroScale' = IF pcOther = "assign"
                            THEN GyroScaleOf(otherChip.gyro) ELSE 0
            /\ UNCHANGED accelScale
       ELSE /\ accelScale' = IF pcOther = "assign"
                             THEN AccelScaleOf(otherChip.accel) ELSE 0
            /\ UNCHANGED gyroScale
    /\ otherPending' = otherPending \ {v}
    /\ pcOther' = IF otherPending' # {} THEN pcOther
                  ELSE IF pcOther = "assign" THEN "done" ELSE "failed"
    /\ ret' = NoRet
    /\ UNCHANGED <<chip, otherChip, failedReads, ticker, config, openedAt,
                   everFaulted, published, construction, handle, cache, errs,
                   mu, worker, cancelled, closing>>

\* ------------------------------------------------------------ specification

Next ==
    \/ HostValidate
    \/ MakeStart
    \/ MakeOpen
    \/ MakeTransfer
    \/ LoopTick
    \/ LoopRead
    \/ LoopSet
    \/ LoopDecode
    \/ LoopLock
    \/ LoopWriteLinearAcceleration
    \/ LoopWriteTemperature
    \/ LoopWriteAngularVelocity
    \/ LoopUnlock
    \/ LoopCancel
    \/ AngularVelocity
    \/ LinearAcceleration
    \/ Readings
    \/ Properties
    \/ \E m \in UnsupportedMethods : Unsupported(m)
    \/ Accuracy
    \/ CloseStop
    \/ CloseJoin
    \/ CloseLock
    \/ CloseOpen
    \/ CloseWrite
    \/ CloseReturn

Spec == Init /\ [][Next]_vars

\* Construction alone, on every chip whose two scale registers hold a byte
\* up to MaxRegValue.
MaxRegValue == 15

ScaleChips ==
    {Chip(expectedConfigurationReadAddress, g, a) :
        g \in 0..MaxRegValue, a \in 0..MaxRegValue}

ScaleNext == HostValidate \/ MakeStart \/ MakeOpen \/ MakeTransfer

ScaleSpec == InitOn(ScaleChips) /\ [][ScaleNext]_vars

\* Validation and construction alone, on every Config with one of a few bus
\* names, the empty one included, and either address flag.
BusNames == {"", "1", "2", "3", "4", "5"}

Configs == {Config(b, a) : b \in BusNames, a \in BOOLEAN}

ConfigNext == HostValidate \/ MakeStart \/ MakeOpen \/ MakeTransfer

ConfigSpec == InitWith({DefaultChip}, Configs) /\ [][ConfigNext]_vars

\* The whole sensor on an MPU-9250, declared with either address flag.
AddressConfigs == {Config("1", FALSE), Config("1", TRUE)}

AddressSpec == InitWith({DefaultChip}, AddressConfigs) /\ [][Next]_vars

\* The decode step alone, on a burst that repeats one 16-bit pattern seven
\* times, for every pattern: the worker of a sensor constructed on an
\* MPU-9250 has just recorded the successful read.
maxByte == 255

PatternBurst(hi, lo) == [i \in 1..burstLength |-> IF i % 2 = 1 THEN hi ELSE lo]

PatternBursts == {PatternBurst(hi, lo) : hi \in 0..maxByte, lo \in 0..maxByte}

DecodeInit ==
    /\ chip = DefaultChip
    /\ otherChip = NoChip
    /\ pcOther = "notCalled"
    /\ otherPending = {}
    /\ ticker = "running"
    /\ failedReads = 0
    /\ conf = DefaultConf
    /\ validation = Validate(DefaultConf)
    /\ i2cAddress = AddressOf(DefaultConf)
    /\ closeLogged = FALSE
    /\ openedAt = {AddressOf(DefaultConf)}
    /\ everFaulted = FALSE
    /\ pcMake = "done"
    /\ makeErr = "none"
    /\ makeLog = <<MakeTx("idRead"), MakeTx("wake"), MakeTx("gyroRead"),
                   MakeTx("accelRead")>>
    /\ mkGyro = 0
    /\ handle = [c \in Callers |-> NoTx]
    /\ gyroScale = GyroScaleOf(DefaultChip.gyro)
    /\ accelScale = AccelScaleOf(DefaultChip.accel)
    /\ angularVelocity = ZeroVector
    /\ temperature = 0
    /\ linearAcceleration = ZeroVector
    /\ errs = LastErrorSet(EmptyWindow, FALSE)
    /\ mu = "free"
    /\ loopPc = "recorded"
    /\ loopRaw \in PatternBursts
    /\ loopVals = NoVals
    /\ cancelled = FALSE
    /\ closePc = "idle"
    /\ closeErr = Nil
    /\ ret = NoRet
    /\ mkBus = "ok"
    /\ published = FALSE

DecodeNext == LoopDecode

DecodeSpec == DecodeInit /\ [][DecodeNext]_vars

\* The life of one sensor on an MPU-9250 under the scheduling the program
\* runs with.  A started goroutine keeps running and a bus call returns:
\* weak fairness of the worker's steps after a tick and of the steps of
\* Close after Stop.  A select with several ready cases picks one at random:
\* strong fairness of the cancellation case, which is ready every time the
\* worker is back at its select.  Nothing is assumed about ticks, about
\* construction or about Close being called.
LifeNext ==
    \/ HostValidate
    \/ MakeStart
    \/ MakeOpen
    \/ MakeTransfer
    \/ LoopTick
    \/ LoopRead
    \/ LoopSet
    \/ LoopDecode
    \/ LoopLock
    \/ LoopWriteLinearAcceleration
    \/ LoopWriteTemperature
    \/ LoopWriteAngularVelocity
    \/ LoopUnlock
    \/ LoopCancel
    \/ Readings
    \/ CloseStop
    \/ CloseJoin
    \/ CloseLock
    \/ CloseOpen
    \/ CloseWrite
    \/ CloseReturn

WorkerRuns ==
    /\ WF_vars(LoopRead)
    /\ WF_vars(LoopSet)
    /\ WF_vars(LoopDecode)
    /\ WF_vars(LoopLock)
    /\ WF_vars(LoopWriteLinearAcceleration)
    /\ WF_vars(LoopWriteTemperature)
    /\ WF_vars(LoopWriteAngularVelocity)
    /\ WF_vars(LoopUnlock)

SelectIsFair == SF_vars(LoopCancel)

CloseRuns ==
    /\ WF_vars(CloseJoin)
    /\ WF_vars(CloseLock)
    /\ WF_vars(CloseOpen)
    /\ WF_vars(CloseWrite)
    /\ WF_vars(CloseReturn)

FairSpec ==
    /\ InitOn({DefaultChip})
    /\ [][LifeNext]_vars
    /\ WorkerRuns
    /\ SelectIsFair
    /\ CloseRuns

\* The life of one sensor on an MPU-9250 whose gyro scale register, or
\* whose accel scale register, holds a byte the switch has no case for.
ZeroScaleChips ==
    {Chip(expectedConfigurationReadAddress, 2, 0),
     Chip(expectedConfigurationReadAddress, 0, 3)}

ZeroScaleSpec == InitOn(ZeroScaleChips) /\ [][LifeNext]_vars

\* One sensor on an MPU-9250 at its power-on scales, constructed, polled and
\* read but not closed, while a second sensor is constructed, at any moment,
\* on an MPU-9250 whose scale registers hold 1.
OtherChips == {Chip(expectedConfigurationReadAddress, 1, 1)}

TwoSensorNext ==
    \/ HostValidate
    \/ MakeStart
    \/ MakeOpen
    \/ MakeTransfer
    \/ LoopTick
    \/ LoopRead
    \/ LoopSet
    \/ LoopDecode
    \/ LoopLock
    \/ LoopWriteLinearAcceleration
    \/ LoopWriteTemperature
    \/ LoopWriteAngularVelocity
    \/ LoopUnlock
    \/ Readings
    \/ OtherMakeBegin
    \/ OtherGetScales
    \/ \E v \in {"gyroScale", "accelScale"} : OtherAssign(v)

TwoSensorSpec ==
    InitAll({DefaultChip}, {DefaultConf}, OtherChips) /\ [][TwoSensorNext]_vars

\* ------------------------------------------------------------------ claims

Accessed(op) == ret.op = op
ErrorReporting == {"AngularVelocity", "LinearAcceleration", "Readings"}
AllFailed(w) == \A i \in 1..Len(w) : w[i]

\* C1: when the last 10 burst reads all failed, AngularVelocity returns the
\* cached angular velocity (the zero vector if nothing was ever published)
\* together with a non-nil error; the cached vector is handed out as it is,
\* faulted or not.
C1_AngularVelocityWhenFaulted ==
    [][ ret'.op = "AngularVelocity" =>
          /\ ret'.val = angularVelocity
          /\ (~published => ret'.val = ZeroVector)
          /\ (AllFailed(errs) => ret'.err # Nil) ]_vars

C1_Witness ==
    /\ Accessed("AngularVelocity")
    /\ AllFailed(errs)
    /\ ret.err # Nil
    /\ ret.val = angularVelocity
    /\ ret.val # ZeroVector

\* C2: LinearAcceleration returns the zero vector and the fault error when
\* the Error State is faulted (at least 5 failures in its window), whatever
\* is cached, and the cached linear acceleration with a nil error otherwise.
C2_LinearAccelerationShortCircuit ==
    [][ ret'.op = "LinearAcceleration" =>
          IF FailureCount(errs) >= 5
          THEN ret'.val = ZeroVector /\ ret'.err = BusError
          ELSE ret'.val = linearAcceleration /\ ret'.err = Nil ]_vars

C2_Witness ==
    /\ Accessed("LinearAcceleration")
    /\ ret.err = BusError
    /\ ret.val = ZeroVector
    /\ linearAcceleration # ZeroVector

\* C3: an accessor reports a fault when exactly 5 of the 10 attempts in the
\* window failed, wherever in the window they are, and reports none when
\* only 4 failed.
C3_ThresholdInclusiveAtFive ==
    [][ ret'.op \in ErrorReporting =>
          /\ (FailureCount(errs) = 5 => ret'.err # Nil)
          /\ (FailureCount(errs) = 4 => ret'.err = Nil) ]_vars

\* The oldest slot holds a failure, so 10 attempts were recorded; the
\* failures are not adjacent.
C3_Witness ==
    /\ ret.op \in ErrorReporting
    /\ ret.err # Nil
    /\ FailureCount(errs) = 5
    /\ errs[1] /\ ~errs[2] /\ errs[3] /\ ~errs[10]

\* C4: once Close has returned the worker has exited and stays exited, it
\* holds no bus handle, the cached values never change again and no outcome
\* is recorded in the Error State (the only change left to it is an
\* accessor's report emptying the window).
C4_NothingRunsAfterClose ==
    [][ closePc = "returned" =>
          /\ loopPc = "exited" /\ loopPc' = "exited"
          /\ handle["loop"] = NoTx /\ handle'["loop"] = NoTx
          /\ UNCHANGED cache
          /\ \/ errs' = errs
             \/ /\ ret'.op \in ErrorReporting
                /\ ret'.err # Nil
                /\ errs' = EmptyWindow ]_vars

C4_Witness ==
    /\ closePc = "returned"
    /\ Accessed("Readings")
    /\ published
    /\ ret.val.av = angularVelocity

SleepWriteIssued == closePc \in {"writing", "wrote", "returned"}

\* C5: from the moment Close issues the sleep write (64 to register 107) the
\* worker has exited and no burst read is open.
C5_SleepWriteAfterLoopExit ==
    /\ SleepWriteIssued => loopPc = "exited" /\ handle["loop"] = NoTx
    /\ handle["close"] \in {NoTx, [op |-> "write", reg |-> 107, arg |-> 64]}

C5_Witness ==
    /\ closePc = "writing"
    /\ handle["close"] = [op |-> "write", reg |-> 107, arg |-> 64]
    /\ published

ConstructionOrder ==
    << [op |-> "read", reg |-> 117, arg |-> 1],
       [op |-> "write", reg |-> 107, arg |-> 0],
       [op |-> "read", reg |-> 27, arg |-> 1],
       [op |-> "read", reg |-> 28, arg |-> 1] >>

\* C6: construction issues identity read (117), power-on write (0 to 107),
\* gyro scale read (27), accel scale read (28) in that order; a failed step
\* ends it with an error, no later step is issued and the worker is never
\* started.
C6_ConstructionOrderAndAbort ==
    /\ Len(makeLog) <= 4
    /\ makeLog = SubSeq(ConstructionOrder, 1, Len(makeLog))
    /\ mkBus = "failed" => pcMake = "failed" /\ makeErr # "none"
    /\ pcMake = "failed" => loopPc = "notStarted" /\ handle["make"] = NoTx
    /\ loopPc # "notStarted" => pcMake = "done" /\ Len(makeLog) = 4
    /\ pcMake = "done" => makeErr = "none"
    /\ makeErr \in {"addressReadError", "unexpectedDeviceError"} => Len(makeLog) = 1
    /\ makeErr = "unableToWakeUp" => Len(makeLog) = 2
    /\ makeErr = "busError" => Len(makeLog) \in {3, 4}

C6_Witness ==
    /\ pcMake = "failed"
    /\ mkBus = "failed"
    /\ makeErr = "unableToWakeUp"
    /\ Len(makeLog) = 2

\* C7: an identity read that succeeds on the bus with a byte other than 0x71
\* ends construction with the unexpected-device error, not the error of a
\* failed identity read; no power-on write is issued and no worker started.
C7_UnexpectedDevice ==
    /\ (chip.id # 113 /\ mkBus = "ok") =>
          /\ pcMake = "failed"
          /\ makeErr = "unexpectedDeviceError"
          /\ makeLog = <<[op |-> "read", reg |-> 117, arg |-> 1]>>
          /\ loopPc = "notStarted"
    /\ (Len(makeLog) = 1 /\ mkBus = "failed") => makeErr = "addressReadError"

C7_Witness ==
    /\ chip.id = 104
    /\ mkBus = "ok"
    /\ makeErr = "unexpectedDeviceError"

DocumentedGyroScale == <<250, 500, 1000, 2000>>
DocumentedAccelScale == <<2, 4, 8, 16>>

\* C8: after construction the gyro scale is 250, 500, 1000, 2000 (over
\* 32768) and the accel scale 2, 4, 8, 16 (over 32768) for the codes 0, 1,
\* 2, 3 held in the low 2 bits of the scale registers.
C8_ScaleLookupExact ==
    pcMake = "done" =>
        /\ gyroScale = DocumentedGyroScale[(chip.gyro % 4) + 1]
        /\ accelScale = DocumentedAccelScale[(chip.accel % 4) + 1]

Snapshots == {NoVals} \cup {Decode(b, gyroScale, accelScale) : b \in Bursts}

\* C9: the three values of one Readings call are those of one burst, or all
\* the initial zeros.
C9_NoTornReadings == Accessed("Readings") => ret.val \in Snapshots

\* Readings ran while the worker held the values of another burst, decoded
\* and not yet published.
C9_Witness ==
    /\ Accessed("Readings")
    /\ published
    /\ loopPc = "decoded"
    /\ loopVals # ret.val

\* C10: only the worker, holding the lock, writes the cached values: no
\* accessor, no unsupported method and no step of Close changes them.
C10_LoopIsSoleWriter ==
    [][ /\ (ret'.op # "none" \/ closePc' # closePc) => UNCHANGED cache
        /\ cache' # cache => mu = "loop" /\ loopPc' # loopPc ]_vars

C10_Witness ==
    /\ Accessed("Close")
    /\ published
    /\ temperature # 0

\* C11: Validate returns the field-required error naming "i2c_bus" when
\* i2c_bus is empty, and no error with an empty dependency list when it is
\* not, whatever use_alt_i2c_address; nothing is constructed from a Config
\* that failed validation.
C11_ValidateRequiresBus ==
    /\ validation # NotValidated =>
          /\ validation.deps = <<>>
          /\ IF conf.I2cBus = ""
             THEN validation.err = "ConfigValidationFieldRequiredError: i2c_bus"
             ELSE validation.err = "nil"
    /\ pcMake # "notCalled" => conf.I2cBus # ""

C11_Witness ==
    /\ conf.I2cBus = ""
    /\ conf.UseAlternateI2CAddress
    /\ validation.err = "ConfigValidationFieldRequiredError: i2c_bus"

ClaimedUnsupported == {"Temperature", "Orientation", "CompassHeading", "Position"}

\* C13 as stated: Temperature, Orientation, CompassHeading and Position are
\* the unsupported methods, and each returns its unimplemented error.
C13_UnsupportedAsClaimed ==
    /\ ClaimedUnsupported \subseteq UnsupportedMethods
    /\ ret.op \in ClaimedUnsupported => ret.err = UnimplementedError(ret.op)

\* C13: LinearVelocity, Orientation, CompassHeading and Position can be
\* called in every state of a constructed sensor, and return their fixed
\* unimplemented error whatever the Error State holds and whether or not
\* Close was called.
C13_UnsupportedAlwaysUnimplemented ==
    /\ UnsupportedMethods =
          {"LinearVelocity", "Orientation", "CompassHeading", "Position"}
    /\ ret.op \in {"LinearVelocity", "Orientation", "CompassHeading", "Position"} =>
          ret = [op |-> ret.op, val |-> 0,
                 err |-> "ErrMethodUnimplemented" \o ret.op]
    /\ pcMake = "done" => \A m \in UnsupportedMethods : ENABLED Unsupported(m)

C13_Witness ==
    /\ Accessed("LinearVelocity")
    /\ closePc = "returned"
    /\ FailureCount(errs) >= 5
    /\ ret.err = "ErrMethodUnimplementedLinearVelocity"

S16(hi, lo) == IF hi >= 128 THEN 256 * hi + lo - 65536 ELSE 256 * hi + lo

\* C14: from a burst b[0..13] the worker computes, and then publishes,
\* linear acceleration = int16BE of b[0:2], b[2:4], b[4:6], each times
\* accelScale times 9.81; temperature = int16BE(b[6:8]) / 333.87 + 21.0;
\* angular velocity = int16BE of b[8:10], b[10:12], b[12:14], each times
\* gyroScale.  With the scales of the codes (0, 0) (250 and 2 over 32768),
\* accel raw (0, 0, 16384), gyro raw (0, 0, 0) and temperature raw 0 that
\* is acceleration Z = 9.81, angular velocity (0, 0, 0), temperature 21.0.
C14_DecodedValues ==
    [][ /\ (loopPc = "recorded" /\ loopPc' = "decoded") =>
              LET b == loopRaw
              IN  /\ Len(b) = 14
                  /\ loopVals'.la = << S16(b[1], b[2]) * accelScale * 981,
                                       S16(b[3], b[4]) * accelScale * 981,
                                       S16(b[5], b[6]) * accelScale * 981 >>
                  /\ loopVals'.temp = S16(b[7], b[8]) * 100 + 2100 * 333 + 21 * 87
                  /\ loopVals'.av = << S16(b[9], b[10]) * gyroScale,
                                       S16(b[11], b[12]) * gyroScale,
                                       S16(b[13], b[14]) * gyroScale >>
                  /\ (b = <<0, 0, 0, 0, 64, 0, 0, 0, 0, 0, 0, 0, 0, 0>>
                        /\ gyroScale = 250 /\ accelScale = 2) =>
                       loopVals' = [la |-> <<0, 0, 981 * 32768>>,
                                    temp |-> 21 * 33387,
                                    av |-> <<0, 0, 0>>]
        /\ (loopPc = "wroteAV" /\ loopPc' = "select") =>
              /\ linearAcceleration = loopVals.la
              /\ temperature = loopVals.temp
              /\ angularVelocity = loopVals.av
              /\ UNCHANGED cache ]_vars

\* Readings hands out the values of the scenario: 9.81 is 981 * 32768 over
\* 32768 * 100, 21.0 is 21 * 33387 over 33387.
C14_Witness ==
    /\ Accessed("Readings")
    /\ ret.err = Nil
    /\ gyroScale = 250 /\ accelScale = 2
    /\ ret.val = [la |-> <<0, 0, 981 * 32768>>, temp |-> 21 * 33387,
                  av |-> <<0, 0, 0>>]

\* C16: Properties can be called in every state of a constructed sensor and
\* always returns angular-velocity and linear-acceleration support true,
\* every other flag false, and a nil error, faulted or not.
C16_PropertiesStatic ==
    /\ Accessed("Properties") =>
          /\ ret.err = "nil"
          /\ ret.val = [AngularVelocitySupported |-> TRUE,
                        LinearAccelerationSupported |-> TRUE,
                        LinearVelocitySupported |-> FALSE,
                        OrientationSupported |-> FALSE,
                        PositionSupported |-> FALSE,
                        CompassHeadingSupported |-> FALSE]
    /\ pcMake = "done" => ENABLED Properties

C16_Witness ==
    /\ Accessed("Properties")
    /\ FailureCount(errs) >= 5
    /\ ret.err = Nil
    /\ ret.val.AngularVelocitySupported

\* The two bytes of a 16-bit two's-complement integer, high byte first.
BytesBEFromInt16(v) ==
    LET u == IF v < 0 THEN v + 65536 ELSE v
    IN  <<u \div 256, u % 256>>

\* C17: the decode of a byte pair is the big-endian two's-complement
\* integer: it lies in -32768..32767, encoding it gives the pair back,
\* 0x7FFF decodes to 32767, 0x8000 to -32768 and 0xFFFF to -1; it is the
\* integer the conversions scale.
C17_Int16RoundTrip ==
    [][ (loopPc = "recorded" /\ loopPc' = "decoded") =>
          LET pair == <<loopRaw[1], loopRaw[2]>>
              v == Int16FromBytesBE(pair)
          IN  /\ v \in -32768..32767
              /\ BytesBEFromInt16(v) = pair
              /\ pair = <<127, 255>> => v = 32767
              /\ pair = <<128, 0>> => v = -32768
              /\ pair = <<255, 255>> => v = -1
              /\ loopVals'.av = <<v * gyroScale, v * gyroScale, v * gyroScale>>
              /\ loopVals'.temp = v * 100 + 21 * 33387
              /\ loopVals'.la[1] = v * accelScale * 981 ]_vars

C17_Witness ==
    /\ loopPc = "decoded"
    /\ loopVals.av = <<-32768 * 250, -32768 * 250, -32768 * 250>>
    /\ loopVals.temp = -32768 * 100 + 21 * 33387

\* C15 as stated: when the sleep write fails after the worker was stopped,
\* Close logs the error and returns nil.
C15_CloseHidesWriteError ==
    (Accessed("Close") /\ closeErr # Nil) =>
        closeLogged /\ ret.err = Nil

\* C15: Close stops the worker, then writes the sleep bit; if only that
\* write fails, Close logs the error and also returns it to the caller.  It
\* returns nil, and logs nothing, when the write succeeds.
C15_CloseReturnsWriteError ==
    Accessed("Close") =>
        /\ loopPc = "exited"
        /\ ret.err = closeErr
        /\ closeLogged = (closeErr # "nil")

C15_Witness ==
    /\ Accessed("Close")
    /\ loopPc = "exited"
    /\ published
    /\ closeLogged
    /\ ret.err = BusError

\* C18: a tick whose burst read fails appends a failure to the Error State,
\* changes none of the three cached values and takes the worker back to its
\* select, where the next tick can issue a new burst read; the worker ends
\* only when it is cancelled.
C18_FailedTickKeepsCache ==
    /\ [][ /\ (loopPc = "gotErr" /\ loopPc' # "gotErr") =>
                 /\ errs' = Append(Tail(errs), TRUE)
                 /\ loopPc' = "select"
                 /\ UNCHANGED cache
           /\ (loopPc \in {"select", "reading"} /\ loopPc' # loopPc) =>
                 UNCHANGED cache ]_vars
    /\ [](loopPc = "select" => ENABLED LoopTick)
    /\ [](loopPc = "exited" => cancelled)

\* A new burst read is open; the read before it failed and was recorded,
\* and the values published earlier are still cached.
C18_Witness ==
    /\ loopPc = "reading"
    /\ handle["loop"] = [op |-> "read", reg |-> 59, arg |-> 14]
    /\ ~cancelled
    /\ errs[10]
    /\ published
    /\ temperature # 0

\* C19: every tick appends its outcome, a success too, to the Error State;
\* when fewer than 5 of the outcomes in the window are failures, also after
\* the sensor was faulted, AngularVelocity, LinearAcceleration and Readings
\* return a nil error and LinearAcceleration returns the cached vector.
C19_RecoversFromTransientFaults ==
    [][ /\ (loopPc \in {"gotErr", "gotData"} /\ loopPc' # loopPc) =>
              errs' = Append(Tail(errs), loopPc = "gotErr")
        /\ (ret'.op \in ErrorReporting /\ FailureCount(errs) < 5) =>
              ret'.err = Nil /\ errs' = errs
        /\ (ret'.op = "LinearAcceleration" /\ FailureCount(errs) < 5) =>
              ret'.val = linearAcceleration ]_vars

\* The sensor was faulted; the latest read succeeded, 4 failures are left
\* in the window, and LinearAcceleration hands out the published vector.
C19_Witness ==
    /\ Accessed("LinearAcceleration")
    /\ everFaulted
    /\ FailureCount(errs) = 4
    /\ ~errs[10]
    /\ ret.err = Nil
    /\ ret.val = linearAcceleration
    /\ ret.val # ZeroVector

\* C20 as stated: the worker records a tick's outcome under the lock, so no
\* accessor returns between the recording of a successful read and the
\* publication of its values.
C20_OutcomeNeverAheadOfSnapshot ==
    ret.op \in ErrorReporting => loopPc \notin {"recorded", "decoded"}

\* C20: the worker writes the cached values only while it holds the lock,
\* and the accessors run only while they hold it; the worker records a
\* tick's outcome in the Error State before it takes the lock.
C20_SnapshotLockedErrorStateNot ==
    [][ /\ cache' # cache => mu = "loop" /\ mu' = "loop"
        /\ ret'.op \in ErrorReporting => mu = "free" /\ mu' = "free"
        /\ (loopPc \in {"gotErr", "gotData"} /\ loopPc' # loopPc) =>
              mu # "loop" /\ mu' = mu ]_vars

\* Readings returned while the worker had recorded a successful read whose
\* values it had not yet decoded and published.
C20_Witness ==
    /\ Accessed("Readings")
    /\ ret.err = Nil
    /\ loopPc = "recorded"
    /\ ~errs[10]
    /\ published
    /\ ret.val # Decode(loopRaw, gyroScale, accelScale)

OpenHandles == {c \in Callers : handle[c] # NoTx}

\* C21: a handle is open only inside the readBlock or writeByte call that
\* opened it (the transfer of construction, of a tick, of Close's write);
\* when the call has returned, with or without an error, or when the open
\* itself failed, the caller holds no handle.  A caller's handle only ever
\* goes from closed to open or from open to closed, and at most one handle
\* of the sensor is open at any time.
C21_HandlesScopedToOneCall ==
    /\ [](/\ handle["loop"] # NoTx <=> loopPc = "reading"
          /\ handle["close"] # NoTx <=> closePc = "writing"
          /\ handle["make"] # NoTx =>
                pcMake \in {"idRead", "wake", "gyroRead", "accelRead"}
          /\ pcMake \in {"done", "failed"} => handle["make"] = NoTx
          /\ Cardinality(OpenHandles) <= 1)
    /\ [][ \A c \in Callers :
             handle'[c] # handle[c] => handle[c] = NoTx \/ handle'[c] = NoTx ]_vars

\* Close's write failed after burst reads had failed and succeeded; every
\* handle is closed.
C21_Witness ==
    /\ closePc = "wrote"
    /\ closeErr = BusError
    /\ OpenHandles = {}
    /\ failedReads > 0
    /\ published

\* C22: once the worker's context is cancelled the worker eventually exits,
\* however many ticks arrive in between, and its ticker is stopped whenever
\* it has exited; a Close that has called Stop eventually returns.
C22_CancelledWorkerExits ==
    /\ cancelled ~> (loopPc = "exited" /\ ticker = "stopped")
    /\ (closePc = "stopping") ~> (closePc = "returned")
    /\ [](loopPc = "exited" => ticker = "stopped")
    /\ [](ticker = "running" <=> loopPc \notin {"notStarted", "exited"})

\* Close has returned; the worker had failed and successful reads behind it
\* and its ticker is stopped.
C22_Witness ==
    /\ closePc = "returned"
    /\ cancelled
    /\ loopPc = "exited"
    /\ ticker = "stopped"
    /\ errs[10]
    /\ published

RecognisedCodes == {0, 1, 10, 11}

\* C23: with a scale register byte that is none of the recognised values,
\* construction fails only if a bus transaction fails; when it succeeds the
\* scale is zero and the worker runs.  The affected quantity (angular
\* velocity for the gyro scale, linear acceleration for the accel scale)
\* is then zero in every snapshot the worker computes or publishes,
\* whatever the burst holds, and Readings reports no error unless the
\* Error State has been faulted by failed reads.
C23_UnrecognisedScaleIsZero ==
    /\ pcMake = "failed" => mkBus = "failed"
    /\ pcMake = "done" =>
          /\ makeErr = "none"
          /\ loopPc # "notStarted"
          /\ chip.gyro \notin RecognisedCodes => gyroScale = 0
          /\ chip.accel \notin RecognisedCodes => accelScale = 0
    /\ chip.gyro \notin RecognisedCodes =>
          angularVelocity = <<0, 0, 0>> /\ loopVals.av = <<0, 0, 0>>
    /\ chip.accel \notin RecognisedCodes =>
          linearAcceleration = <<0, 0, 0>> /\ loopVals.la = <<0, 0, 0>>
    /\ (Accessed("Readings") /\ ~everFaulted) => ret.err = Nil

\* Readings after the burst with non-zero gyro words was published, on the
\* chip whose gyro scale byte is 2.
C23_Witness ==
    /\ chip.gyro = 2
    /\ Accessed("Readings")
    /\ ret.err = Nil
    /\ temperature = toTemperature(SubSeq(BurstB, 7, 8))
    /\ ret.val.av = <<0, 0, 0>>
    /\ ret.val.la # <<0, 0, 0>>

OwnSnapshots ==
    {NoVals} \cup
    {Decode(b, GyroScaleOf(chip.gyro), AccelScaleOf(chip.accel)) : b \in Bursts}

\* C24: the values a sensor hands out are those of a burst converted with
\* the scales read from its own chip at its construction, whatever happens
\* to a second sensor constructed on a chip with other scale codes.
C24_ScalesBelongToInstance ==
    Accessed("Readings") => ret.val \in OwnSnapshots

\* C25 as stated: whenever a bus transaction is in progress, whoever issued
\* it, the lock is free.
C25_NoTransactionUnderLock ==
    \A c \in Callers : handle[c] # NoTx => mu = "free"

\* C25: the lock is free during every transaction of construction and of
\* the worker, and the worker holds no handle while it holds the lock; Close
\* holds the lock during its sleep write, so no accessor returns while that
\* write is in progress.
C25_OnlyCloseWritesUnderLock ==
    /\ [](/\ handle["make"] # NoTx => mu = "free"
          /\ handle["loop"] # NoTx => mu = "free"
          /\ mu = "loop" => OpenHandles = {}
          /\ handle["close"] # NoTx => mu = "close"
          /\ mu = "close" <=> closePc \in {"locked", "writing", "wrote"})
    /\ [][ ret'.op \in ErrorReporting =>
             handle["close"] = NoTx /\ handle["make"] = NoTx ]_vars

\* Close's sleep write in progress on a sensor that had failed reads.
C25_Witness ==
    /\ closePc = "writing"
    /\ mu = "close"
    /\ handle["close"] # NoTx
    /\ failedReads > 0
    /\ ~ENABLED Readings

\* C26: a new sensor has nothing cached and nothing recorded.  Until the
\* worker has published its first snapshot, AngularVelocity and
\* LinearAcceleration return the zero vector and Readings returns zeros for
\* its three values; and while fewer than errThreshold burst reads have
\* failed since construction, the window holds no more failures than that
\* and AngularVelocity, LinearAcceleration and Readings return a nil error.
C26_StartsEmpty ==
    /\ [](/\ (~published /\ mu # "loop") =>
                /\ angularVelocity = ZeroVector
                /\ linearAcceleration = ZeroVector
                /\ temperature = 0
          /\ failedReads = 0 => errs = EmptyWindow
          /\ failedReads < errThreshold => FailureCount(errs) <= failedReads)
    /\ [][ /\ (ret'.op \in ErrorReporting /\ failedReads < errThreshold) =>
                 ret'.err = Nil
           /\ (ret'.op \in {"AngularVelocity", "LinearAcceleration"}
                 /\ ~published) => ret'.val = ZeroVector
           /\ (ret'.op = "Readings" /\ ~published) => ret'.val = NoVals ]_vars

\* Readings on a sensor whose first four burst reads have all failed.
C26_Witness ==
    /\ Accessed("Readings")
    /\ ~published
    /\ failedReads = errThreshold - 1
    /\ FailureCount(errs) = errThreshold - 1
    /\ ret.err = Nil
    /\ ret.val = NoVals

====
